---------------------------- MODULE Spec2Model ----------------------------
(***************************************************************************)
(* A model of textpipe's Doc (src/textpipe/doc.py): a lazily evaluated     *)
(* wrapper around a raw text whose methods are memoized with               *)
(* functools.lru_cache and whose language is either given or detected.     *)
(*                                                                         *)
(* A text is a sequence of symbols.  A symbol is one character, written    *)
(* as a string; characters outside ASCII are written by their code point   *)
(* ("U+2018" is the left single quotation mark), an HTML tag or entity is  *)
(* one symbol ("</b>", "&rsquo;") and so is a whole word ("Test").         *)
(***************************************************************************)
EXTENDS Naturals, Sequences, FiniteSets

(***************************************************************************)
(* Bounds of the model.                                                    *)
(***************************************************************************)
\* Longest raw text drawn for the pure text functions.
MaxLen == 3
\* Most guesses in a detector answer drawn for detect_language's result rule.
MaxGuesses == 2
\* Most Doc instances constructed in one behaviour.
MaxDocs == 2
\* Entries one lru_cache keeps.  functools.lru_cache() keeps 128; the model
\* keeps fewer so that the eviction order is within reach of the checker.
LruMaxSize == 2
\* The recorded counts (spacy.load per language, detector runs per Doc)
\* saturate here.
MaxCount == 2

(***************************************************************************)
(* Python values.                                                          *)
(***************************************************************************)
None == "None"

\* bool(x) of a language argument: None and the empty string are falsy.
Truthy(x) == x \notin {None, ""}

NoExc == "none"
TextpipeMissingModelException == "TextpipeMissingModelException"
ValueError == "ValueError"
NotImplementedError == "NotImplementedError"

\* The outcome of a call: a returned value or a raised exception.
Return(v) == [exc |-> NoExc, val |-> <<v>>]
Raise(e) == [exc |-> e, val |-> <<>>]

(***************************************************************************)
(* clean_text: HTML removal and the three punctuation rules.               *)
(***************************************************************************)
HtmlTags == {"</b>"}
HtmlEntities == {"&rsquo;"}
SingleQuotes == {"U+0060", "U+2018", "U+2019", "U+201B", "U+2E02", "U+2E03",
                 "U+2E0C", "U+2E0D", "U+2E1C", "U+2E1D"}
DoubleQuotes == {"U+201E", "U+201C"}
Whitespace == {" ", "NL"}

\* BeautifulSoup(text, 'html.parser').get_text(): tags go, entities decode.
RECURSIVE GetText(_)
GetText(text) ==
    IF text = <<>> THEN <<>>
    ELSE IF Head(text) \in HtmlTags THEN GetText(Tail(text))
    ELSE IF Head(text) \in HtmlEntities THEN <<"U+2019">> \o GetText(Tail(text))
    ELSE <<Head(text)>> \o GetText(Tail(text))

\* re.sub(r'U+2026', '...', text)
RECURSIVE SubDots(_)
SubDots(text) ==
    IF text = <<>> THEN <<>>
    ELSE IF Head(text) = "U+2026" THEN <<".", ".", ".">> \o SubDots(Tail(text))
    ELSE <<Head(text)>> \o SubDots(Tail(text))

\* re.sub(r'[U+0060 U+2018 ... U+2E1D]', "'", text)
RECURSIVE SubSingleQuotes(_)
SubSingleQuotes(text) ==
    IF text = <<>> THEN <<>>
    ELSE IF Head(text) \in SingleQuotes
         THEN <<"'">> \o SubSingleQuotes(Tail(text))
    ELSE <<Head(text)>> \o SubSingleQuotes(Tail(text))

\* re.sub(r'[U+201E U+201C]|(\'\')|(,,)', '"', text): one scan from the left,
\* the alternatives tried in order, matches never overlapping.
RECURSIVE SubDoubleQuotes(_)
SubDoubleQuotes(text) ==
    IF text = <<>> THEN <<>>
    ELSE IF Head(text) \in DoubleQuotes
         THEN <<"\"">> \o SubDoubleQuotes(Tail(text))
    ELSE IF Len(text) >= 2 /\ text[1] = "'" /\ text[2] = "'"
         THEN <<"\"">> \o SubDoubleQuotes(Tail(Tail(text)))
    ELSE IF Len(text) >= 2 /\ text[1] = "," /\ text[2] = ","
         THEN <<"\"">> \o SubDoubleQuotes(Tail(Tail(text)))
    ELSE <<Head(text)>> \o SubDoubleQuotes(Tail(text))

\* re.sub(r'\s+', ' ', text): every run of whitespace becomes one space.
RECURSIVE SubWhitespace(_)
SubWhitespace(text) ==
    IF text = <<>> THEN <<>>
    ELSE IF Head(text) \in Whitespace
         THEN IF Len(text) >= 2 /\ text[2] \in Whitespace
              THEN SubWhitespace(Tail(text))
              ELSE <<" ">> \o SubWhitespace(Tail(text))
    ELSE <<Head(text)>> \o SubWhitespace(Tail(text))

\* str.strip(): whitespace at both ends goes.
RECURSIVE Strip(_)
Strip(text) ==
    IF text = <<>> THEN <<>>
    ELSE IF Head(text) \in Whitespace THEN Strip(Tail(text))
    ELSE IF text[Len(text)] \in Whitespace
         THEN Strip(SubSeq(text, 1, Len(text) - 1))
    ELSE text

\* The two quote substitutions in the other order: the doubled apostrophes
\* that the single-quote rule makes are no longer seen by the double-quote rule.
CleanQuotesSwapped(text) == SubSingleQuotes(SubDoubleQuotes(text))

\* The two quote substitutions, in the order of the code.
CleanQuotes(text) == SubDoubleQuotes(SubSingleQuotes(text))

\* Doc.clean_text's body on a raw text; flags is
\* [remove_html, clean_dots, clean_quotes, clean_whitespace].
CleanTextOf(raw, flags) ==
    LET t1 == IF flags.remove_html THEN GetText(raw) ELSE raw
        t2 == IF flags.clean_dots THEN SubDots(t1) ELSE t1
        t3 == IF flags.clean_quotes THEN CleanQuotes(t2) ELSE t2
        t4 == IF flags.clean_whitespace THEN Strip(SubWhitespace(t3)) ELSE t3
    IN  t4

Flags == [remove_html : BOOLEAN, clean_dots : BOOLEAN,
          clean_quotes : BOOLEAN, clean_whitespace : BOOLEAN]

\* The defaults of clean_text's four parameters.
DefaultFlags == [remove_html |-> TRUE, clean_dots |-> TRUE,
                 clean_quotes |-> TRUE, clean_whitespace |-> TRUE]

(***************************************************************************)
(* detect_language: the rule applied to the detector's answer.             *)
(***************************************************************************)
\* The rule without its test for the code 'un'.
DetectResultKeepsUnknown(is_reliable, best_guesses) ==
    IF Len(best_guesses) = 0 \/ Len(best_guesses[1]) # 4
    THEN <<FALSE, "un">>
    ELSE <<is_reliable, best_guesses[1][2]>>

\* What detect_language returns for cld2's (is_reliable, _, best_guesses).
DetectResult(is_reliable, best_guesses) ==
    IF \/ Len(best_guesses) = 0
       \/ Len(best_guesses[1]) # 4
       \/ best_guesses[1][2] = "un"
    THEN <<FALSE, "un">>
    ELSE <<is_reliable, best_guesses[1][2]>>

\* What cld2.detect answers for a cleaned text and a hint.  The detector is a
\* library; this table gives it one text of each kind the code tells apart: a
\* text without words is unknown, 'Test' is too short to contradict the hint,
\* 'Dit' is a weak guess of Dutch, 'Wort' is plainly German.
Guess(code) == <<"NAME", code, 99, 1000>>
Cld2Detect(text, hint) ==
    LET has(w) == \E i \in 1..Len(text) : text[i] = w
    IN  IF has("Wort") THEN [is_reliable |-> TRUE, best_guesses |-> <<Guess("de")>>]
        ELSE IF has("Dit") THEN [is_reliable |-> FALSE, best_guesses |-> <<Guess("nl")>>]
        ELSE IF has("Test")
             THEN [is_reliable |-> TRUE,
                   best_guesses |-> <<Guess(IF hint = None THEN "en" ELSE hint)>>]
        ELSE [is_reliable |-> FALSE, best_guesses |-> <<Guess("un")>>]

(***************************************************************************)
(* The state of the program and what is recorded about its calls.          *)
(***************************************************************************)
VARIABLES
    docs,       \* the Doc instances, in the order of their construction
    regs,       \* the model registries (dict objects) a Doc's _spacy_nlps names
    lru,        \* the cache of each lru_cache-decorated function, oldest first
    loads,      \* per language, how often spacy.load returned a model
    called,     \* the (function, key) pairs of memoized calls that have returned
    propRuns,   \* per Doc, how often its two language properties ran the detector
    last,       \* the last call: what was asked, its outcome, what it ran
    phase,      \* "input" or "done": the step of a pure function's check
    text,       \* the raw text given to clean_text
    flags,      \* the four flags given to clean_text
    cleaned,    \* what clean_text returned
    answer,     \* the detector's answer given to detect_language's rule
    detected    \* what the rule returned

vars == <<docs, regs, lru, loads, called, propRuns, last,
          phase, text, flags, cleaned, answer, detected>>
docVars == <<docs, regs, lru, loads, called, propRuns, last>>
pureVars == <<phase, text, flags, cleaned, answer, detected>>

Langs == {"en", "nl", "de", "un"}
Methods == {"clean_text", "detect_language", "_load_spacy_doc", "_get_default_nlp",
            "find_ents", "find_minhash", "extract_keyterms",
            "generate_word_vectors", "aggregate_word_vectors"}

\* spacy.load's argument for a language, and the packages that are installed.
DefaultModelName(lang) == <<lang, "core", IF lang = "en" THEN "web" ELSE "news", "sm">>
InstalledModels == {DefaultModelName("en"), DefaultModelName("nl")}

\* A registry: the languages that are keys of the outer dict, and the
\* (language, model id, model) entries of the inner dicts.
EmptyRegistry == [langs |-> {}, models |-> {}]
HasModel(reg, lang, model_name) ==
    \E e \in reg.models : e[1] = lang /\ e[2] = model_name
GetModel(reg, lang, model_name) ==
    (CHOOSE e \in reg.models : e[1] = lang /\ e[2] = model_name)[3]

\* The registry a caller has built before any Doc exists: a custom Dutch model.
CustomModel == [name |-> <<"nl_spacy_custom">>, serial |-> 0]
UserRegistry == [langs |-> {"nl"}, models |-> {<<"nl", "nl_spacy_custom", CustomModel>>}]

(***************************************************************************)
(* functools.lru_cache.  A call threads the state s through and returns    *)
(* [st, res]: the state after it and its outcome.                          *)
(***************************************************************************)
LruHit(c, key) == \E i \in 1..Len(c) : c[i].key = key
LruValue(c, key) == c[CHOOSE i \in 1..Len(c) : c[i].key = key].val
\* A hit moves the entry to the most recently used end.
LruTouch(c, key) ==
    SelectSeq(c, LAMBDA e : e.key # key) \o SelectSeq(c, LAMBDA e : e.key = key)
\* A miss stores the result and, when the cache is full, drops the oldest.
LruPut(c, key, val) ==
    LET full == Append(c, [key |-> key, val |-> val])
    IN  IF Len(full) > LruMaxSize THEN Tail(full) ELSE full

\* F applied to the value v, which is computed once.
Bind(v, F(_)) == CHOOSE y \in {F(x) : x \in {v}} : TRUE

Memo(s, m, key, Compute(_)) ==
    IF LruHit(s.lru[m], key)
    THEN [st |-> [s EXCEPT !.lru[m] = LruTouch(@, key)],
          res |-> Return(LruValue(s.lru[m], key))]
    ELSE Bind(Compute(s), LAMBDA r :
            IF r.res.exc # NoExc THEN r
            ELSE [st |-> [r.st EXCEPT
                            !.lru[m] = LruPut(@, key, r.res.val[1]),
                            !.called = @ \cup {<<m, key>>},
                            !.recomputed = @ \cup ({<<m, key>>} \cap s.called)],
                  res |-> r.res])

Ran(s, lib) == [s EXCEPT !.libs = @ \cup {lib}]

(***************************************************************************)
(* Doc's methods and properties.  d is the index of the instance (self);   *)
(* args is the tuple of arguments the caller wrote, which with d makes the *)
(* cache key: a call that leaves a default out has another key than one    *)
(* that writes the default's value.                                        *)
(***************************************************************************)
\* Doc.__init__
InitDoc(raw, language, hint_language, reg) ==
    [raw |-> raw,
     hint_language |-> hint_language,
     _spacy_nlps |-> reg,
     is_detected_language |-> (language = None),
     _language |-> language,
     _is_reliable_language |-> IF Truthy(language) THEN "True" ELSE None,
     given |-> language]

PyBool(b) == IF b THEN "True" ELSE "False"

\* Doc.clean_text(*args)
CleanText(s, d, args) ==
    Memo(s, "clean_text", <<d>> \o args, LAMBDA t :
        [st |-> Ran(t, "re"),
         res |-> Return(CleanTextOf(t.docs[d].raw,
                                    IF args = <<>> THEN DefaultFlags ELSE args[1]))])

\* Doc.clean
Clean(s, d) == CleanText(s, d, <<>>)

\* Doc.detect_language(*args); byProp tells a call made by one of the two
\* language properties from a call made by anyone else.
DetectLanguage(s, d, args, byProp) ==
    Memo(s, "detect_language", <<d>> \o args, LAMBDA t :
        Bind(Clean(t, d), LAMBDA c :
            LET hint == IF args = <<>> THEN None ELSE args[1]
                a == Cld2Detect(c.res.val[1], hint)
                n == c.st.propRuns[d]
            IN  [st |-> [Ran(c.st, "cld2") EXCEPT
                           !.propRuns[d] = IF byProp /\ n < MaxCount THEN n + 1 ELSE n],
                 res |-> Return(DetectResult(a.is_reliable, a.best_guesses))]))

\* The assignment both properties make:
\* self._is_reliable_language, self._language = self.detect_language(self.hint_language)
StoreDetected(s, d) ==
    Bind(DetectLanguage(s, d, <<s.docs[d].hint_language>>, TRUE), LAMBDA r :
        [r.st EXCEPT !.docs[d]._is_reliable_language = PyBool(r.res.val[1][1]),
                     !.docs[d]._language = r.res.val[1][2]])

\* Doc.language
Language(s, d) ==
    Bind(IF ~Truthy(s.docs[d]._language) THEN StoreDetected(s, d) ELSE s, LAMBDA t :
        [st |-> t, res |-> Return(t.docs[d]._language)])

\* The property with "if not self._is_reliable_language": a stored False
\* asks for the detection again.
IsReliableLanguageFalsy(s, d) ==
    Bind(IF s.docs[d]._is_reliable_language \in {None, "False"}
         THEN StoreDetected(s, d) ELSE s, LAMBDA t :
        [st |-> t, res |-> Return(t.docs[d]._is_reliable_language)])

\* Doc.is_reliable_language
IsReliableLanguage(s, d) ==
    Bind(IF s.docs[d]._is_reliable_language = None THEN StoreDetected(s, d) ELSE s,
         LAMBDA t : [st |-> t, res |-> Return(t.docs[d]._is_reliable_language)])

\* The language is added to the requests of the call.
Requested(l) == [st |-> [l.st EXCEPT !.req = @ \cup {l.res.val[1]}], res |-> l.res]

\* lang = self.language if self.is_reliable_language else self.hint_language
\* (the condition is read first).
ChooseLang(s, d) ==
    Bind(IsReliableLanguage(s, d), LAMBDA r :
        IF r.res.val[1] = "True"
        THEN Bind(Language(r.st, d), LAMBDA l : Requested(l))
        ELSE Requested([st |-> r.st, res |-> Return(r.st.docs[d].hint_language)]))

\* The static method without its lru_cache.
GetDefaultNlpUncached(s, lang) ==
    IF DefaultModelName(lang) \in InstalledModels
    THEN LET n == IF s.loads[lang] < MaxCount THEN s.loads[lang] + 1
                  ELSE s.loads[lang]
         IN  [st |-> [Ran(s, "spacy.load") EXCEPT !.loads[lang] = n],
              res |-> Return([name |-> DefaultModelName(lang), serial |-> n])]
    ELSE [st |-> Ran(s, "spacy.load"), res |-> Raise(TextpipeMissingModelException)]

\* Doc._get_default_nlp(lang), a static method with a cache of its own.
GetDefaultNlp(s, lang) ==
    Memo(s, "_get_default_nlp", <<lang>>, LAMBDA t :
        IF DefaultModelName(lang) \in InstalledModels
        THEN LET n == IF t.loads[lang] < MaxCount THEN t.loads[lang] + 1
                      ELSE t.loads[lang]
             IN  [st |-> [Ran(t, "spacy.load") EXCEPT !.loads[lang] = n],
                  res |-> Return([name |-> DefaultModelName(lang), serial |-> n])]
        ELSE [st |-> Ran(t, "spacy.load"), res |-> Raise(TextpipeMissingModelException)])

\* self._spacy_nlps[lang][None] = model, in the registry of Doc d.
SetDefault(s, d, lang, model) ==
    [s EXCEPT !.regs[s.docs[d]._spacy_nlps].models =
        {e \in @ : ~(e[1] = lang /\ e[2] = None)} \cup {<<lang, None, model>>}]

\* nlp = self._spacy_nlps[lang][model_name]; doc = nlp(self.clean_text())
RunNlp(s, d, lang, model_name) ==
    Bind(CleanText(s, d, <<>>), LAMBDA c :
        [st |-> Ran(c.st, "spacy"),
         res |-> Return([nlp |-> GetModel(c.st.regs[c.st.docs[d]._spacy_nlps],
                                          lang, model_name),
                         text |-> c.res.val[1]])])

\* The body with a fallback: a custom model that is missing is replaced by the
\* default model of the language instead of being reported.
LoadSpacyDocBodyFallback(s, d, lang, model_name) ==
    LET reg == s.regs[s.docs[d]._spacy_nlps]
        load == lang \notin reg.langs \/ ~HasModel(reg, lang, None)
        used == IF HasModel(reg, lang, model_name) THEN model_name ELSE None
    IN  IF load
        THEN Bind(GetDefaultNlp([s EXCEPT !.regs[s.docs[d]._spacy_nlps].langs =
                                              @ \cup {lang}], lang), LAMBDA g :
                IF g.res.exc # NoExc THEN g
                ELSE RunNlp(SetDefault(g.st, d, lang, g.res.val[1]), d, lang, used))
        ELSE RunNlp(s, d, lang, used)

\* The rest of Doc._load_spacy_doc once the default model is in place.
UseModel(s, d, lang, model_name) ==
    IF ~HasModel(s.regs[s.docs[d]._spacy_nlps], lang, model_name) /\ model_name # None
    THEN [st |-> s, res |-> Raise(TextpipeMissingModelException)]
    ELSE RunNlp(s, d, lang, model_name)

\* The body of Doc._load_spacy_doc.
LoadSpacyDocBody(s, d, lang, model_name) ==
    LET reg == s.regs[s.docs[d]._spacy_nlps]
        load == lang \notin reg.langs
                  \/ (model_name = None /\ ~HasModel(reg, lang, model_name))
    IN  IF load
        THEN Bind(GetDefaultNlp([s EXCEPT !.regs[s.docs[d]._spacy_nlps].langs =
                                              @ \cup {lang}], lang), LAMBDA g :
                IF g.res.exc # NoExc THEN g
                ELSE Bind(SetDefault(g.st, d, lang, g.res.val[1]), LAMBDA t :
                        UseModel(t, d, lang, model_name)))
        ELSE UseModel(s, d, lang, model_name)

\* Doc._load_spacy_doc(lang, *args)
LoadSpacyDoc(s, d, lang, args) ==
    Memo(s, "_load_spacy_doc", <<d, lang>> \o args, LAMBDA t :
        LoadSpacyDocBody(t, d, lang, IF args = <<>> THEN None ELSE args[1]))

\* Doc._spacy_doc
SpacyDoc(s, d) ==
    Bind(ChooseLang(s, d), LAMBDA l : LoadSpacyDoc(l.st, d, l.res.val[1], <<>>))

\* lang = ...; self._load_spacy_doc(lang, model_name), as find_ents,
\* generate_word_vectors and aggregate_word_vectors begin.
SpacyDocWith(s, d, model_name) ==
    Bind(ChooseLang(s, d), LAMBDA l :
        LoadSpacyDoc(l.st, d, l.res.val[1], <<model_name>>))

\* The first parameter (model_name or ranker) as the callee sees it.
FirstArg(args, default) == IF args = <<>> THEN default ELSE args[1]

\* What a feature returns from a spaCy document, or the exception it met.
Feature(call, kind) ==
    Bind(call, LAMBDA r :
        IF r.res.exc # NoExc THEN r
        ELSE [st |-> r.st, res |-> Return(<<kind, r.res.val[1]>>)])

\* Doc.find_ents(*args)
FindEnts(s, d, args) ==
    Memo(s, "find_ents", <<d>> \o args, LAMBDA t :
        Feature(SpacyDocWith(t, d, FirstArg(args, None)), "ents"))

\* The tokens spaCy makes of a text: every symbol that is not whitespace.
Tokens(txt) == SelectSeq(txt, LAMBDA c : c \notin Whitespace)

\* Doc.words
Words(s, d) ==
    Bind(SpacyDoc(s, d), LAMBDA r :
        IF r.res.exc # NoExc THEN r
        ELSE [st |-> r.st, res |-> Return(Tokens(r.res.val[1].text))])

Rankers == {"textrank", "sgrank", "singlerank"}

\* Doc.extract_keyterms(*args)
ExtractKeyterms(s, d, args) ==
    Memo(s, "extract_keyterms", <<d>> \o args, LAMBDA t :
        Bind(Words(t, d), LAMBDA w :
            IF w.res.exc # NoExc THEN w
            ELSE IF Len(w.res.val[1]) < 1 THEN [st |-> w.st, res |-> Return(<<>>)]
            ELSE IF FirstArg(args, "textrank") \notin Rankers
                 THEN [st |-> w.st, res |-> Raise(ValueError)]
            ELSE Feature(SpacyDoc(Ran(w.st, "textacy"), d),
                         FirstArg(args, "textrank"))))

\* Doc.find_minhash(*args)
FindMinhash(s, d, args) ==
    Memo(s, "find_minhash", <<d>> \o args, LAMBDA t :
        Bind(Words(t, d), LAMBDA w :
            IF w.res.exc # NoExc THEN w
            ELSE [st |-> Ran(w.st, "datasketch"),
                  res |-> Return(<<"minhash", w.res.val[1]>>)]))

\* Doc.generate_word_vectors(*args)
GenerateWordVectors(s, d, args) ==
    Memo(s, "generate_word_vectors", <<d>> \o args, LAMBDA t :
        Feature(SpacyDocWith(t, d, FirstArg(args, None)), "vectors"))

Aggregations == {"mean", "sum", "var"}

\* Doc.aggregate_word_vectors(*args): args is (), (model_name,) or
\* (model_name, aggregation).
AggregateWordVectors(s, d, args) ==
    Memo(s, "aggregate_word_vectors", <<d>> \o args, LAMBDA t :
        Bind(SpacyDocWith(t, d, FirstArg(args, None)), LAMBDA r :
            LET aggregation == IF Len(args) < 2 THEN "mean" ELSE args[2]
            IN  IF r.res.exc # NoExc THEN r
                ELSE IF aggregation \in Aggregations
                     THEN [st |-> Ran(r.st, "numpy"),
                           res |-> Return(<<aggregation, r.res.val[1]>>)]
                ELSE [st |-> r.st, res |-> Raise(NotImplementedError)]))

SentimentLangs == {"en", "nl", "fr", "it"}

\* What sentiment does with the language it has read.
SentimentOf(l, d) ==
    IF l.res.val[1] \in SentimentLangs
    THEN Bind(Clean(l.st, d), LAMBDA c :
            [st |-> Ran(c.st, "pattern"),
             res |-> Return(<<"sentiment", l.res.val[1], c.res.val[1]>>)])
    ELSE [st |-> l.st, res |-> Raise(TextpipeMissingModelException)]

\* sentiment choosing its lexicon as the spaCy features choose their model:
\* the hint when the detection is not reliable.
SentimentWithFallback(s, d) ==
    Bind(ChooseLang(s, d), LAMBDA l : SentimentOf(l, d))

\* Doc.sentiment
Sentiment(s, d) ==
    Bind(Language(s, d), LAMBDA l : SentimentOf(l, d))

(***************************************************************************)
(* The calls a user of the class makes, one action each.                   *)
(***************************************************************************)
\* The state a call starts from: nothing run, requested or recomputed yet.
Before ==
    [docs |-> docs, regs |-> regs, lru |-> lru, loads |-> loads,
     called |-> called, propRuns |-> propRuns,
     libs |-> {}, req |-> {}, recomputed |-> {}]

\* The state after a call with outcome r, and the record of the call.
After(op, d, args, call) ==
    \E r \in {call} :
        /\ docs' = r.st.docs
        /\ regs' = r.st.regs
        /\ lru' = r.st.lru
        /\ loads' = r.st.loads
        /\ called' = r.st.called
        /\ propRuns' = r.st.propRuns
        /\ last' = [op |-> op, d |-> d, args |-> args,
                    exc |-> r.res.exc, val |-> r.res.val,
                    libs |-> r.st.libs, req |-> r.st.req,
                    recomputed |-> r.st.recomputed]
        /\ UNCHANGED pureVars

NoCall == [op |-> "none", d |-> 0, args |-> <<>>, exc |-> NoExc, val |-> <<>>,
           libs |-> {}, req |-> {}, recomputed |-> {}]

Ds == 1..Len(docs)

\* Doc(raw, language, hint_language, spacy_nlps): nlps = 0 passes no registry,
\* nlps = i passes the dict regs[i]; "spacy_nlps or dict()" keeps the dict given
\* only if it is not empty.
NewDoc(raw, language, hint_language, nlps) ==
    /\ Len(docs) < MaxDocs
    /\ LET fresh == nlps = 0 \/ regs[nlps] = EmptyRegistry
           reg == IF fresh THEN Len(regs) + 1 ELSE nlps
       IN  /\ regs' = IF fresh THEN Append(regs, EmptyRegistry) ELSE regs
           /\ docs' = Append(docs, InitDoc(raw, language, hint_language, reg))
    /\ propRuns' = Append(propRuns, 0)
    /\ last' = [NoCall EXCEPT !.op = "__init__", !.d = Len(docs) + 1]
    /\ UNCHANGED <<lru, loads, called, pureVars>>

ReadLanguage(d) == After("language", d, <<>>, Language(Before, d))
ReadIsReliableLanguage(d) ==
    After("is_reliable_language", d, <<>>, IsReliableLanguage(Before, d))
CallDetectLanguage(d, args) ==
    After("detect_language", d, args, DetectLanguage(Before, d, args, FALSE))
CallCleanText(d, args) == After("clean_text", d, args, CleanText(Before, d, args))
ReadSentiment(d) == After("sentiment", d, <<>>, Sentiment(Before, d))
ReadSpacyDoc(d) == After("_spacy_doc", d, <<>>, SpacyDoc(Before, d))
CallLoadSpacyDoc(d, lang, args) ==
    After("_load_spacy_doc", d, <<lang>> \o args, LoadSpacyDoc(Before, d, lang, args))
CallFindEnts(d, args) == After("find_ents", d, args, FindEnts(Before, d, args))
CallExtractKeyterms(d, args) ==
    After("extract_keyterms", d, args, ExtractKeyterms(Before, d, args))
CallFindMinhash(d, args) ==
    After("find_minhash", d, args, FindMinhash(Before, d, args))
CallGenerateWordVectors(d, args) ==
    After("generate_word_vectors", d, args, GenerateWordVectors(Before, d, args))
CallAggregateWordVectors(d, args) ==
    After("aggregate_word_vectors", d, args, AggregateWordVectors(Before, d, args))

(***************************************************************************)
(* The inputs drawn.                                                       *)
(***************************************************************************)
\* Raw texts: one without words, one short word in typographic quotes, a weak
\* Dutch guess with a closing tag, a German word.
Blank == <<" ">>
Quoted == <<"U+2018", "Test", "U+2019">>
Dutch == <<"Dit", "</b>">>
German == <<"Wort">>

\* Constructor arguments (raw, language, hint_language, spacy_nlps).
LangMenu == {<<Blank, None, "en", 0>>, <<Quoted, None, "nl", 0>>,
             <<Dutch, None, "en", 0>>}
GivenMenu == LangMenu \cup {<<German, "", "en", 0>>, <<Quoted, "de", "en", 0>>}
SentimentMenu == {<<Blank, None, "en", 0>>, <<Dutch, None, "en", 0>>,
                  <<Quoted, None, "en", 0>>, <<German, "", "en", 0>>,
                  <<Quoted, "de", "nl", 0>>}
ModelMenu == {<<Blank, None, "en", 0>>, <<Quoted, None, "nl", 1>>,
              <<German, None, "nl", 1>>}
VectorMenu == {<<Blank, None, "en", 0>>, <<Dutch, "", "en", 0>>,
               <<Quoted, "nl", "en", 1>>}
MemoMenu == {<<Blank, None, "en", 0>>, <<Quoted, None, "nl", 1>>}

ModelNameArgs == {<<>>, <<"nl_spacy_custom">>, <<"missing">>}
RankerArgs == {<<>>, <<"pagerank">>}
AggregationArgs == {<<>>, <<None, "median">>, <<"missing", "sum">>}
FlagArgs == {<<>>, <<[DefaultFlags EXCEPT !.clean_quotes = FALSE]>>}
DetectArgs == {<<>>, <<"nl">>}

Symbols == {"a", " ", "'", ",", "U+2018", "U+201C", "U+2026", "</b>", "&rsquo;"}
RECURSIVE TextsUpTo(_)
TextsUpTo(n) ==
    IF n = 0 THEN {<<>>}
    ELSE LET shorter == TextsUpTo(n - 1)
         IN  shorter \cup {Append(t, c) : t \in {u \in shorter : Len(u) = n - 1},
                                           c \in Symbols}

\* Detector answers: guesses of three or four fields.
Codes == {"un", "en", "nl"}
Guesses == {Guess(c) : c \in Codes} \cup {<<"NAME", c, 99>> : c \in Codes}
RECURSIVE GuessesUpTo(_)
GuessesUpTo(n) ==
    IF n = 0 THEN {<<>>}
    ELSE LET shorter == GuessesUpTo(n - 1)
         IN  shorter \cup {Append(t, g) : t \in {u \in shorter : Len(u) = n - 1},
                                           g \in Guesses}

(***************************************************************************)
(* Initial states.                                                         *)
(***************************************************************************)
InitDocs ==
    /\ docs = <<>>
    /\ regs = <<UserRegistry>>
    /\ lru = [m \in Methods |-> <<>>]
    /\ loads = [l \in Langs |-> 0]
    /\ called = {}
    /\ propRuns = <<>>
    /\ last = NoCall

InitPure ==
    /\ phase = "idle"
    /\ text = <<>>
    /\ flags = DefaultFlags
    /\ cleaned = <<>>
    /\ answer = [is_reliable |-> FALSE, best_guesses |-> <<>>]
    /\ detected = <<FALSE, "un">>

Init == InitDocs /\ InitPure

InitClean ==
    /\ InitDocs
    /\ phase = "input"
    /\ text \in TextsUpTo(MaxLen)
    /\ flags \in Flags
    /\ cleaned = <<>>
    /\ answer = [is_reliable |-> FALSE, best_guesses |-> <<>>]
    /\ detected = <<FALSE, "un">>

InitDetect ==
    /\ InitDocs
    /\ phase = "input"
    /\ text = <<>>
    /\ flags = DefaultFlags
    /\ cleaned = <<>>
    /\ answer \in [is_reliable : BOOLEAN, best_guesses : GuessesUpTo(MaxGuesses)]
    /\ detected = <<FALSE, "un">>

(***************************************************************************)
(* Steps of the pure functions.                                            *)
(***************************************************************************)
ApplyCleanText ==
    /\ phase = "input"
    /\ cleaned' = CleanTextOf(text, flags)
    /\ phase' = "done"
    /\ UNCHANGED <<docVars, text, flags, answer, detected>>

ApplyDetectResult ==
    /\ phase = "input"
    /\ detected' = DetectResult(answer.is_reliable, answer.best_guesses)
    /\ phase' = "done"
    /\ UNCHANGED <<docVars, text, flags, cleaned, answer>>

(***************************************************************************)
(* Specifications.                                                         *)
(***************************************************************************)
ConstructFrom(menu) == \E a \in menu : NewDoc(a[1], a[2], a[3], a[4])

\* The two language properties of a Doc constructed without a language, and
\* detect_language called with a hint that is or is not the Doc's own.
NextLang ==
    \/ ConstructFrom(LangMenu)
    \/ \E d \in Ds : ReadLanguage(d)
    \/ \E d \in Ds : ReadIsReliableLanguage(d)
    \/ \E d \in Ds : CallDetectLanguage(d, <<"nl">>)

SpecLang == Init /\ [][NextLang]_vars

\* The language of Docs constructed with and without a language.
NextGiven ==
    \/ ConstructFrom(GivenMenu)
    \/ \E d \in Ds : ReadLanguage(d)
    \/ \E d \in Ds : ReadIsReliableLanguage(d)
    \/ \E d \in Ds, a \in DetectArgs : CallDetectLanguage(d, a)
    \/ \E d \in Ds : ReadSentiment(d)

SpecGiven == Init /\ [][NextGiven]_vars

\* sentiment, before and after the reliability of the language was read.
NextSentiment ==
    \/ ConstructFrom(SentimentMenu)
    \/ \E d \in Ds : ReadSentiment(d)
    \/ \E d \in Ds : ReadLanguage(d)
    \/ \E d \in Ds : ReadIsReliableLanguage(d)

SpecSentiment == Init /\ [][NextSentiment]_vars

\* Custom models asked for by name, registered or not.
NextCustom ==
    \/ ConstructFrom(ModelMenu)
    \/ \E d \in Ds, a \in ModelNameArgs \ {<<>>} : CallFindEnts(d, a)
    \/ \E d \in Ds : CallLoadSpacyDoc(d, "nl", <<"missing">>)

SpecCustom == Init /\ [][NextCustom]_vars

\* The default models of the languages, asked for by several Docs.
NextDefault ==
    \/ ConstructFrom(ModelMenu)
    \/ \E d \in Ds : ReadSpacyDoc(d)
    \/ \E d \in Ds : CallLoadSpacyDoc(d, "nl", <<>>)

SpecDefault == Init /\ [][NextDefault]_vars

\* The word vectors of a Doc.
NextVectors ==
    \/ ConstructFrom(VectorMenu)
    \/ \E d \in Ds, a \in ModelNameArgs : CallGenerateWordVectors(d, a)
    \/ \E d \in Ds, a \in AggregationArgs : CallAggregateWordVectors(d, a)

SpecVectors == Init /\ [][NextVectors]_vars

\* The words of a Doc and what is computed from them.
NextWords ==
    \/ ConstructFrom(MemoMenu)
    \/ \E d \in Ds, a \in RankerArgs : CallExtractKeyterms(d, a)
    \/ \E d \in Ds : CallFindMinhash(d, <<>>)

SpecWords == Init /\ [][NextWords]_vars

\* Memoized methods called with several argument lists on several instances.
NextMemo ==
    \/ ConstructFrom(MemoMenu)
    \/ \E d \in Ds, a \in FlagArgs : CallCleanText(d, a)
    \/ \E d \in Ds, a \in DetectArgs : CallDetectLanguage(d, a)
    \/ \E d \in Ds : CallLoadSpacyDoc(d, "en", <<>>)

SpecMemo == Init /\ [][NextMemo]_vars

\* clean_text on every short text and every choice of flags.
SpecClean == InitClean /\ [][ApplyCleanText]_vars

\* detect_language's rule on every short detector answer.
SpecDetect == InitDetect /\ [][ApplyDetectResult]_vars

(***************************************************************************)
(* The claims.                                                             *)
(***************************************************************************)
\* The memoized methods of an instance.
MemoizedMethods == Methods \ {"_get_default_nlp"}
\* The language a Doc's spaCy features use, from its stored fields.
ChosenLang(d) ==
    IF docs[d]._is_reliable_language = "True" THEN docs[d]._language
    ELSE docs[d].hint_language
\* What detect_language(hint_language) is for a Doc, from the pure functions.
ExpectedDetection(d) ==
    LET a == Cld2Detect(CleanTextOf(docs[d].raw, DefaultFlags), docs[d].hint_language)
        r == DetectResult(a.is_reliable, a.best_guesses)
    IN  <<PyBool(r[1]), r[2]>>
ModelOps == {"_load_spacy_doc", "find_ents", "generate_word_vectors",
             "aggregate_word_vectors"}
ModelNameOf(c) ==
    IF c.op = "_load_spacy_doc"
    THEN IF Len(c.args) >= 2 THEN c.args[2] ELSE None
    ELSE FirstArg(c.args, None)
LangOf(c) == IF c.op = "_load_spacy_doc" THEN c.args[1] ELSE ChosenLang(c.d)
FeatureOps == {"_spacy_doc", "find_ents", "generate_word_vectors",
               "aggregate_word_vectors"}
Adjacent(t, c) == \E i \in 1..(Len(t) - 1) : t[i] = c /\ t[i + 1] = c

\* C1: a memoized method called again on the same instance with the same
\* arguments, after a call that returned, never computes its result again.
C1_RepeatedCallServedFromCache ==
    \A k \in last.recomputed : k[1] \notin MemoizedMethods

\* C2: for a Doc constructed without a language, once either language
\* property has been read the stored pair (is_reliable_language, language) is
\* the result of detect_language(hint_language), every read returns the stored
\* field, and the two properties have run the detector at most once.
C2_LanguageDetectedOnce ==
    \A d \in Ds : docs[d].given = None =>
        /\ propRuns[d] <= 1
        /\ (docs[d]._language # None \/ docs[d]._is_reliable_language # None)
              => <<docs[d]._is_reliable_language, docs[d]._language>>
                    = ExpectedDetection(d)
        /\ (last.d = d /\ last.op = "language")
              => last.val = <<ExpectedDetection(d)[2]>>
        /\ (last.d = d /\ last.op = "is_reliable_language")
              => last.val = <<ExpectedDetection(d)[1]>>

\* C2's case: a Doc without a given language whose detection was unreliable,
\* read again through language after the one detector run, with nothing run.
C2_Witness ==
    \E d \in Ds :
        /\ docs[d].given = None
        /\ propRuns[d] = 1
        /\ docs[d]._is_reliable_language = "False"
        /\ last.op = "language" /\ last.d = d /\ last.libs = {}

\* C3: for a Doc constructed with a language other than None, language is the
\* given value, is_reliable_language is True, is_detected_language is False,
\* and the two properties never run the detector.
C3_GivenLanguageKept ==
    \A d \in Ds : docs[d].given # None =>
        /\ docs[d].is_detected_language = FALSE
        /\ propRuns[d] = 0
        /\ (last.d = d /\ last.op = "language") => last.val = <<docs[d].given>>
        /\ (last.d = d /\ last.op = "is_reliable_language") => last.val = <<"True">>

\* C4: a call that names a custom model which the Doc's registry does not
\* hold for the language used raises TextpipeMissingModelException.
C4_MissingCustomModelRaises ==
    (/\ last.op \in ModelOps
     /\ ModelNameOf(last) # None
     /\ ~HasModel(regs[docs[last.d]._spacy_nlps], LangOf(last), ModelNameOf(last)))
        => last.exc = TextpipeMissingModelException

\* C4's case: find_ents with an unregistered model name raised although the
\* registry holds the default model of the language.
C4_Witness ==
    /\ last.op = "find_ents"
    /\ last.args = <<"missing">>
    /\ last.exc = TextpipeMissingModelException
    /\ HasModel(regs[docs[last.d]._spacy_nlps], ChosenLang(last.d), None)

\* C5: extract_keyterms with a ranker outside the three known ones raises, for
\* every document.
C5_UnknownRankerRaises ==
    (last.op = "extract_keyterms" /\ FirstArg(last.args, "textrank") \notin Rankers)
        => last.exc # NoExc

\* C6: spacy.load has returned at most once per language, and all registries
\* that hold the default model of a language hold the same object.
C6_DefaultModelLoadedOnce ==
    \A l \in Langs :
        /\ loads[l] <= 1
        /\ \A i, j \in 1..Len(regs) :
              (HasModel(regs[i], l, None) /\ HasModel(regs[j], l, None))
                 => GetModel(regs[i], l, None) = GetModel(regs[j], l, None)

\* C6's case: two registries hold the default English model after one load.
C6_Witness ==
    /\ loads["en"] = 1
    /\ \E i, j \in 1..Len(regs) :
          i # j /\ HasModel(regs[i], "en", None) /\ HasModel(regs[j], "en", None)

\* C7: with clean_quotes the result holds no typographic quote, no two
\* adjacent apostrophes and no two adjacent commas.
C7_QuotesNormalized ==
    (phase = "done" /\ flags.clean_quotes) =>
        /\ \A i \in 1..Len(cleaned) : cleaned[i] \notin SingleQuotes \cup DoubleQuotes
        /\ ~Adjacent(cleaned, "'")
        /\ ~Adjacent(cleaned, ",")

\* C7's case: an entity and a typographic quote became two apostrophes and
\* those one double quote, before a third apostrophe.
C7_Witness ==
    /\ phase = "done"
    /\ flags = DefaultFlags
    /\ text = <<"&rsquo;", "U+2018", "'">>
    /\ cleaned = <<"\"", "'">>

\* C8: sentiment returns exactly when the Doc's language is one of en, nl, fr,
\* it, with the lexicon of that language whatever the reliability and the
\* hint, and otherwise raises TextpipeMissingModelException.
C8_SentimentByLanguage ==
    last.op = "sentiment" =>
        LET lang == IF docs[last.d].given \in {None, ""}
                    THEN ExpectedDetection(last.d)[2] ELSE docs[last.d].given
        IN  /\ docs[last.d]._language = lang
            /\ lang \in SentimentLangs
                 => last.exc = NoExc /\ last.val[1][2] = lang
            /\ lang \notin SentimentLangs
                 => last.exc = TextpipeMissingModelException

\* C8's case: sentiment returned for a Doc whose Dutch was detected
\* unreliably and whose hint is another language.
C8_Witness ==
    /\ last.op = "sentiment"
    /\ last.exc = NoExc
    /\ docs[last.d]._is_reliable_language = "False"
    /\ docs[last.d]._language = "nl"
    /\ docs[last.d].hint_language = "en"

\* C9: a spaCy feature requests the model of the Doc's language when
\* is_reliable_language is True and of hint_language otherwise; an unreliable
\* Doc never requests the detected language, and a Doc constructed with a
\* language never requests hint_language.
C9_ModelFollowsReliability ==
    last.op \in FeatureOps =>
        LET doc == docs[last.d]
        IN  /\ last.req \subseteq {ChosenLang(last.d)}
            /\ (doc._is_reliable_language # "True" /\ doc._language # doc.hint_language)
                  => doc._language \notin last.req
            /\ (doc.given # None /\ doc.given # doc.hint_language)
                  => doc.hint_language \notin last.req

\* C10: detect_language returns (False, 'un') when there is no guess, when the
\* first guess has not four fields or when its code is 'un', and otherwise
\* the detector's flag with the code of the first guess.
C10_DetectResult ==
    phase = "done" =>
        LET g == answer.best_guesses
            unknown == Len(g) = 0 \/ Len(g[1]) # 4 \/ g[1][2] = "un"
        IN  /\ unknown => detected = <<FALSE, "un">>
            /\ ~unknown => detected = <<answer.is_reliable, g[1][2]>>

\* C10's case: the detector called an unknown language reliable.
C10_Witness ==
    /\ phase = "done"
    /\ answer.is_reliable
    /\ Len(answer.best_guesses) >= 1
    /\ Len(answer.best_guesses[1]) = 4
    /\ answer.best_guesses[1][2] = "un"
    /\ detected = <<FALSE, "un">>

=============================================================================
